---- MODULE Spec2Model ----
(***************************************************************************)
(* A model of the trading account ledger of engineering_team/output/       *)
(* accounts.py: the price lookup get_share_price, the Account state and    *)
(* its four mutating operations deposit, withdraw, buy and sell.           *)
(*                                                                         *)
(* Money is modelled in whole currency units (the source uses Python       *)
(* floats; every price of the table and every amount drawn here is a whole *)
(* number, on which float arithmetic is exact).                            *)
(***************************************************************************)
EXTENDS Integers, Sequences, FiniteSets, TLC

VARIABLES cash_balance, total_deposits, holdings, transactions,
          clock, lastCall, completed, price_table, returned, threads

vars == <<cash_balance, total_deposits, holdings, transactions,
          clock, lastCall, completed, price_table, returned, threads>>

\* ---------------------------------------------------------------- bounds
\* the caller stops issuing calls once the ledger holds MaxTx records
MaxTx == 4
\* quantities passed to buy and sell range over -1..MaxQty
MaxQty == 2
\* amounts passed to deposit and withdraw range over 150 * (-1..MaxAmountUnits)
MaxAmountUnits == 2
\* where the price table is patched, the caller stops at MaxTxPatched records
MaxTxPatched == 3
\* where the caller keeps what the queries return, it stops at MaxTxCopies records
MaxTxCopies == 2
\* where two threads call the account, calls begin while records and calls in
\* progress together number less than MaxTxThreads
MaxTxThreads == 3

\* the significand of a float has MantissaBits bits (53 in CPython), shortened
\* so that amounts whose sums are rounded are within the caller's reach
MantissaBits == 12

Amounts == {150 * k : k \in -1..MaxAmountUnits}
Quantities == -1..MaxQty
\* the symbols a caller passes: the three of the price table and one unknown
Symbols == {"AAPL", "TSLA", "GOOGL", "INVALID"}

\* Python's None, for the Optional fields of a Transaction
None == "None"

\* ------------------------------------------------------------------ float
RECURSIVE float_spacing(_, _)
\* the distance between neighbouring floats at magnitude x >= 0, from u upwards
float_spacing(x, u) ==
    IF x < (2 ^ MantissaBits) * u THEN u ELSE float_spacing(x, 2 * u)

\* the float nearest to the number x >= 0, a tie going to the even significand
float_nearest(x) ==
    LET u == float_spacing(x, 1)
        q == x \div u
        r == x % u
    IN  IF 2 * r < u THEN q * u
        ELSE IF 2 * r > u THEN (q + 1) * u
        ELSE IF q % 2 = 0 THEN q * u ELSE (q + 1) * u

\* the result of a float operation whose exact value is x
float_round(x) ==
    IF -(2 ^ MantissaBits) < x /\ x < 2 ^ MantissaBits THEN x
    ELSE IF x < 0 THEN -float_nearest(-x) ELSE float_nearest(x)

\* ---------------------------------------------------------- price oracle
prices == [AAPL |-> 150, TSLA |-> 250, GOOGL |-> 130]

\* the tables the tests put in the place of prices (price_table is the table
\* get_share_price consults; it is prices unless patched)
PatchedTables ==
    {prices,
     [AAPL |-> 150, TSLA |-> 250],
     [AAPL |-> 160, TSLA |-> 250],
     [AAPL |-> 140, TSLA |-> 250]}

\* variant: prices.get(symbol, 0) - an unknown symbol is priced at zero
get_share_price_default_zero(symbol) ==
    IF symbol \in DOMAIN price_table
    THEN [raised |-> None, price |-> price_table[symbol]]
    ELSE [raised |-> None, price |-> 0]

\* get_share_price: the price of the symbol, or InvalidSymbolError raised
get_share_price(symbol) ==
    IF symbol \in DOMAIN price_table
    THEN [raised |-> None, price |-> price_table[symbol]]
    ELSE [raised |-> "InvalidSymbolError", price |-> None]

\* ------------------------------------------------------------ data types
TransactionType == {"DEPOSIT", "WITHDRAW", "BUY", "SELL"}

Transaction(timestamp, type, amount, symbol, quantity, share_price) ==
    [timestamp |-> timestamp, type |-> type, amount |-> amount,
     symbol |-> symbol, quantity |-> quantity, share_price |-> share_price]

\* ---------------------------------------------------------------- Account
\* the account object the methods receive as self
Account ==
    [cash_balance |-> cash_balance, total_deposits |-> total_deposits,
     holdings |-> holdings, transactions |-> transactions]

\* dict.get(symbol, default)
holdings_get(h, symbol, default) ==
    IF symbol \in DOMAIN h THEN h[symbol] ELSE default

\* h[symbol] = value
holdings_set(h, symbol, value) ==
    [s \in DOMAIN h \cup {symbol} |-> IF s = symbol THEN value ELSE h[s]]

\* del h[symbol]
holdings_del(h, symbol) ==
    [s \in DOMAIN h \ {symbol} |-> h[s]]

\* how a method ends: an exception leaves self as it is at the raise
raise(self, error) == [self |-> self, result |-> error]
return(self) == [self |-> self, result |-> "ok"]

\* variant: transactions.insert(0, transaction), the newest record first
record_transaction_prepends(self, type, amount, symbol, quantity, share_price) ==
    [self EXCEPT !.transactions =
        <<Transaction(clock, type, amount, symbol, quantity, share_price)>> \o @]

record_transaction(self, type, amount, symbol, quantity, share_price) ==
    [self EXCEPT !.transactions =
        Append(@, Transaction(clock, type, amount, symbol, quantity, share_price))]

\* variant: only a negative amount is rejected, a deposit of zero goes through
deposit_accepts_zero(self, amount) ==
    IF amount < 0 THEN raise(self, "ValueError")
    ELSE LET s1 == [self EXCEPT !.cash_balance = float_round(@ + amount)]
             s2 == [s1 EXCEPT !.total_deposits = float_round(@ + amount)]
         IN  return(record_transaction(s2, "DEPOSIT", amount, None, None, None))

\* variant: the deposit is not added to total_deposits
deposit_forgets_total(self, amount) ==
    IF amount <= 0 THEN raise(self, "ValueError")
    ELSE LET s1 == [self EXCEPT !.cash_balance = float_round(@ + amount)]
         IN  return(record_transaction(s1, "DEPOSIT", amount, None, None, None))

deposit(self, amount) ==
    IF amount <= 0 THEN raise(self, "ValueError")
    ELSE LET s1 == [self EXCEPT !.cash_balance = float_round(@ + amount)]
             s2 == [s1 EXCEPT !.total_deposits = float_round(@ + amount)]
         IN  return(record_transaction(s2, "DEPOSIT", amount, None, None, None))

\* variant: no check of the amount against the cash balance
withdraw_no_funds_check(self, amount) ==
    IF amount <= 0 THEN raise(self, "ValueError")
    ELSE LET s1 == [self EXCEPT !.cash_balance = float_round(@ - amount)]
         IN  return(record_transaction(s1, "WITHDRAW", -amount, None, None, None))

\* variant: amount >= cash_balance is rejected (the whole balance cannot be withdrawn)
withdraw_strict(self, amount) ==
    IF amount <= 0 THEN raise(self, "ValueError")
    ELSE IF amount >= self.cash_balance THEN raise(self, "InsufficientFundsError")
    ELSE LET s1 == [self EXCEPT !.cash_balance = float_round(@ - amount)]
         IN  return(record_transaction(s1, "WITHDRAW", -amount, None, None, None))

\* variant: a withdrawal above the balance is reported as a ValueError
withdraw_value_error(self, amount) ==
    IF amount <= 0 THEN raise(self, "ValueError")
    ELSE IF amount > self.cash_balance THEN raise(self, "ValueError")
    ELSE LET s1 == [self EXCEPT !.cash_balance = float_round(@ - amount)]
         IN  return(record_transaction(s1, "WITHDRAW", -amount, None, None, None))

\* variant: the withdrawal is recorded with the amount as passed, unsigned
withdraw_records_positive(self, amount) ==
    IF amount <= 0 THEN raise(self, "ValueError")
    ELSE IF amount > self.cash_balance THEN raise(self, "InsufficientFundsError")
    ELSE LET s1 == [self EXCEPT !.cash_balance = float_round(@ - amount)]
         IN  return(record_transaction(s1, "WITHDRAW", amount, None, None, None))

\* variant: a withdrawal is taken off total_deposits too
withdraw_reduces_deposits(self, amount) ==
    IF amount <= 0 THEN raise(self, "ValueError")
    ELSE IF amount > self.cash_balance THEN raise(self, "InsufficientFundsError")
    ELSE LET s1 == [self EXCEPT !.cash_balance = float_round(@ - amount)]
             s2 == [s1 EXCEPT !.total_deposits = float_round(@ - amount)]
         IN  return(record_transaction(s2, "WITHDRAW", -amount, None, None, None))

withdraw(self, amount) ==
    IF amount <= 0 THEN raise(self, "ValueError")
    ELSE IF amount > self.cash_balance THEN raise(self, "InsufficientFundsError")
    ELSE LET s1 == [self EXCEPT !.cash_balance = float_round(@ - amount)]
         IN  return(record_transaction(s1, "WITHDRAW", -amount, None, None, None))

\* variant: the cost is taken off the cash balance before the funds check
buy_deduct_first(self, symbol, quantity) ==
    IF quantity <= 0 THEN raise(self, "ValueError")
    ELSE LET lookup == get_share_price(symbol) IN
    IF lookup.raised # None THEN raise(self, lookup.raised)
    ELSE LET price == lookup.price
             total_cost == float_round(price * quantity)
             s1 == [self EXCEPT !.cash_balance = float_round(@ - total_cost)]
         IN
    IF total_cost > self.cash_balance THEN raise(s1, "InsufficientFundsError")
    ELSE LET s2 == [s1 EXCEPT !.holdings =
                        holdings_set(@, symbol, holdings_get(@, symbol, 0) + quantity)]
         IN  return(record_transaction(s2, "BUY", -total_cost, symbol, quantity, price))

\* variant: the purchase is recorded with the unit price as its amount
buy_records_unit_price(self, symbol, quantity) ==
    IF quantity <= 0 THEN raise(self, "ValueError")
    ELSE LET lookup == get_share_price(symbol) IN
    IF lookup.raised # None THEN raise(self, lookup.raised)
    ELSE LET price == lookup.price
             total_cost == float_round(price * quantity)
         IN
    IF total_cost > self.cash_balance THEN raise(self, "InsufficientFundsError")
    ELSE LET s1 == [self EXCEPT !.cash_balance = float_round(@ - total_cost)]
             s2 == [s1 EXCEPT !.holdings =
                        holdings_set(@, symbol, holdings_get(@, symbol, 0) + quantity)]
         IN  return(record_transaction(s2, "BUY", -price, symbol, quantity, price))

\* variant: holdings[symbol] = quantity, the shares already held are lost
buy_overwrites(self, symbol, quantity) ==
    IF quantity <= 0 THEN raise(self, "ValueError")
    ELSE LET lookup == get_share_price(symbol) IN
    IF lookup.raised # None THEN raise(self, lookup.raised)
    ELSE LET price == lookup.price
             total_cost == float_round(price * quantity)
         IN
    IF total_cost > self.cash_balance THEN raise(self, "InsufficientFundsError")
    ELSE LET s1 == [self EXCEPT !.cash_balance = float_round(@ - total_cost)]
             s2 == [s1 EXCEPT !.holdings = holdings_set(@, symbol, quantity)]
         IN  return(record_transaction(s2, "BUY", -total_cost, symbol, quantity, price))

buy(self, symbol, quantity) ==
    IF quantity <= 0 THEN raise(self, "ValueError")
    ELSE LET lookup == get_share_price(symbol) IN
    IF lookup.raised # None THEN raise(self, lookup.raised)
    ELSE LET price == lookup.price
             total_cost == float_round(price * quantity)
         IN
    IF total_cost > self.cash_balance THEN raise(self, "InsufficientFundsError")
    ELSE LET s1 == [self EXCEPT !.cash_balance = float_round(@ - total_cost)]
             s2 == [s1 EXCEPT !.holdings =
                        holdings_set(@, symbol, holdings_get(@, symbol, 0) + quantity)]
         IN  return(record_transaction(s2, "BUY", -total_cost, symbol, quantity, price))

\* variant: a holding that reaches zero is kept in the dict
sell_keeps_zero(self, symbol, quantity) ==
    IF quantity <= 0 THEN raise(self, "ValueError")
    ELSE LET current_quantity == holdings_get(self.holdings, symbol, 0) IN
    IF current_quantity < quantity THEN raise(self, "InsufficientSharesError")
    ELSE LET lookup == get_share_price(symbol) IN
    IF lookup.raised # None THEN raise(self, lookup.raised)
    ELSE LET price == lookup.price
             total_sale_value == float_round(price * quantity)
             s1 == [self EXCEPT !.cash_balance = float_round(@ + total_sale_value)]
             s2 == [s1 EXCEPT !.holdings = holdings_set(@, symbol, @[symbol] - quantity)]
         IN  return(record_transaction(s2, "SELL", total_sale_value, symbol, quantity, price))

\* variant: the sale is recorded with the cost sign of a purchase
sell_records_negative(self, symbol, quantity) ==
    IF quantity <= 0 THEN raise(self, "ValueError")
    ELSE LET current_quantity == holdings_get(self.holdings, symbol, 0) IN
    IF current_quantity < quantity THEN raise(self, "InsufficientSharesError")
    ELSE LET lookup == get_share_price(symbol) IN
    IF lookup.raised # None THEN raise(self, lookup.raised)
    ELSE LET price == lookup.price
             total_sale_value == float_round(price * quantity)
             s1 == [self EXCEPT !.cash_balance = float_round(@ + total_sale_value)]
             s2 == [s1 EXCEPT !.holdings = holdings_set(@, symbol, @[symbol] - quantity)]
             s3 == IF s2.holdings[symbol] = 0
                   THEN [s2 EXCEPT !.holdings = holdings_del(@, symbol)]
                   ELSE s2
         IN  return(record_transaction(s3, "SELL", -total_sale_value, symbol, quantity, price))

\* variant: the sale is recorded with the quantity left, not the quantity sold
sell_records_remaining(self, symbol, quantity) ==
    IF quantity <= 0 THEN raise(self, "ValueError")
    ELSE LET current_quantity == holdings_get(self.holdings, symbol, 0) IN
    IF current_quantity < quantity THEN raise(self, "InsufficientSharesError")
    ELSE LET lookup == get_share_price(symbol) IN
    IF lookup.raised # None THEN raise(self, lookup.raised)
    ELSE LET price == lookup.price
             total_sale_value == float_round(price * quantity)
             s1 == [self EXCEPT !.cash_balance = float_round(@ + total_sale_value)]
             s2 == [s1 EXCEPT !.holdings = holdings_set(@, symbol, @[symbol] - quantity)]
             s3 == IF s2.holdings[symbol] = 0
                   THEN [s2 EXCEPT !.holdings = holdings_del(@, symbol)]
                   ELSE s2
         IN  return(record_transaction(s3, "SELL", total_sale_value, symbol,
                                       current_quantity - quantity, price))

\* variant: the price is looked up before the share check
sell_lookup_first(self, symbol, quantity) ==
    IF quantity <= 0 THEN raise(self, "ValueError")
    ELSE LET lookup == get_share_price(symbol) IN
    IF lookup.raised # None THEN raise(self, lookup.raised)
    ELSE LET current_quantity == holdings_get(self.holdings, symbol, 0) IN
    IF current_quantity < quantity THEN raise(self, "InsufficientSharesError")
    ELSE LET price == lookup.price
             total_sale_value == float_round(price * quantity)
             s1 == [self EXCEPT !.cash_balance = float_round(@ + total_sale_value)]
             s2 == [s1 EXCEPT !.holdings = holdings_set(@, symbol, @[symbol] - quantity)]
             s3 == IF s2.holdings[symbol] = 0
                   THEN [s2 EXCEPT !.holdings = holdings_del(@, symbol)]
                   ELSE s2
         IN  return(record_transaction(s3, "SELL", total_sale_value, symbol, quantity, price))

sell(self, symbol, quantity) ==
    IF quantity <= 0 THEN raise(self, "ValueError")
    ELSE LET current_quantity == holdings_get(self.holdings, symbol, 0) IN
    IF current_quantity < quantity THEN raise(self, "InsufficientSharesError")
    ELSE LET lookup == get_share_price(symbol) IN
    IF lookup.raised # None THEN raise(self, lookup.raised)
    ELSE LET price == lookup.price
             total_sale_value == float_round(price * quantity)
             s1 == [self EXCEPT !.cash_balance = float_round(@ + total_sale_value)]
             s2 == [s1 EXCEPT !.holdings = holdings_set(@, symbol, @[symbol] - quantity)]
             s3 == IF s2.holdings[symbol] = 0
                   THEN [s2 EXCEPT !.holdings = holdings_del(@, symbol)]
                   ELSE s2
         IN  return(record_transaction(s3, "SELL", total_sale_value, symbol, quantity, price))

\* --------------------------------------------- the methods, step by step
\* The statements of withdraw and buy as a thread runs them: the checks, the
\* assignments, the recording. Nothing in the methods holds a lock, so
\* another thread may run between any two of them.
Threads == {"t1", "t2"}

\* the frame of a thread: where it is in its call, the arguments and locals
IdleFrame == [pc |-> "idle", op |-> None, amount |-> 0, symbol |-> None,
              quantity |-> 0, price |-> 0, total_cost |-> 0]

\* variant: the funds check is left out
withdraw_validate_no_funds_check(self, amount) ==
    IF amount <= 0 THEN "ValueError" ELSE "ok"

withdraw_validate(self, amount) ==
    IF amount <= 0 THEN "ValueError"
    ELSE IF amount > self.cash_balance THEN "InsufficientFundsError"
    ELSE "ok"

withdraw_mutate(self, amount) == [self EXCEPT !.cash_balance = float_round(@ - amount)]

withdraw_record(self, amount) ==
    record_transaction(self, "WITHDRAW", -amount, None, None, None)

\* the checks of buy; price and total_cost are the locals it computes
buy_validate(self, symbol, quantity) ==
    IF quantity <= 0 THEN [result |-> "ValueError", price |-> 0, total_cost |-> 0]
    ELSE LET lookup == get_share_price(symbol) IN
    IF lookup.raised # None THEN [result |-> lookup.raised, price |-> 0, total_cost |-> 0]
    ELSE LET price == lookup.price
             total_cost == float_round(price * quantity)
         IN
    IF total_cost > self.cash_balance
    THEN [result |-> "InsufficientFundsError", price |-> price, total_cost |-> total_cost]
    ELSE [result |-> "ok", price |-> price, total_cost |-> total_cost]

buy_mutate(self, symbol, quantity, total_cost) ==
    LET s1 == [self EXCEPT !.cash_balance = float_round(@ - total_cost)]
    IN  [s1 EXCEPT !.holdings =
            holdings_set(@, symbol, holdings_get(@, symbol, 0) + quantity)]

buy_record(self, symbol, quantity, price, total_cost) ==
    record_transaction(self, "BUY", -total_cost, symbol, quantity, price)

\* ---------------------------------------------------------------- queries
RECURSIVE sum_holdings_price_only(_, _, _)
\* variant: holdings_value += price, the quantity is left out
sum_holdings_price_only(h, todo, holdings_value) ==
    IF todo = {} THEN holdings_value
    ELSE LET symbol == CHOOSE s \in todo : TRUE
             lookup == get_share_price(symbol)
         IN  IF lookup.raised = "InvalidSymbolError"
             THEN sum_holdings_price_only(h, todo \ {symbol}, holdings_value)
             ELSE sum_holdings_price_only(h, todo \ {symbol},
                                          float_round(holdings_value + lookup.price))

RECURSIVE sum_holdings(_, _, _)
\* the loop of get_portfolio_value over the items of holdings still to visit;
\* a lookup that raises InvalidSymbolError is passed over
sum_holdings(h, todo, holdings_value) ==
    IF todo = {} THEN holdings_value
    ELSE LET symbol == CHOOSE s \in todo : TRUE
             lookup == get_share_price(symbol)
         IN  IF lookup.raised = "InvalidSymbolError"
             THEN sum_holdings(h, todo \ {symbol}, holdings_value)
             ELSE sum_holdings(h, todo \ {symbol},
                               float_round(holdings_value
                                           + float_round(lookup.price * h[symbol])))

get_portfolio_value(self) ==
    float_round(self.cash_balance + sum_holdings(self.holdings, DOMAIN self.holdings, 0))

RECURSIVE withdrawn_so_far(_)
withdrawn_so_far(txs) ==
    IF txs = <<>> THEN 0
    ELSE (IF Head(txs).type = "WITHDRAW" THEN -Head(txs).amount ELSE 0)
         + withdrawn_so_far(Tail(txs))

\* variant: the baseline is the net contributed capital, deposits less withdrawals
get_profit_loss_net_baseline(self) ==
    get_portfolio_value(self) - (self.total_deposits - withdrawn_so_far(self.transactions))

get_profit_loss(self) ==
    LET current_value == get_portfolio_value(self)
    IN  float_round(current_value - self.total_deposits)

\* holdings.copy(): a new dict with the same items (the quantities are ints)
get_holdings(self) == self.holdings

\* transactions.copy(): a new list of the same Transaction objects. A record
\* of the ledger is never removed or moved, so its position in transactions
\* identifies the object; the list returned holds these references.
get_transactions(self) == [i \in 1..Len(self.transactions) |-> i]

\* ---------------------------------------------------------------- actions
\* one call of a method by the single-threaded caller: the account takes the
\* state the method left, lastCall remembers the call and how it ended (an
\* argument the method does not take is noted as 0, or None for the symbol)
Call(op, amount, symbol, quantity, out) ==
    /\ Len(transactions) < MaxTx
    /\ cash_balance' = out.self.cash_balance
    /\ total_deposits' = out.self.total_deposits
    /\ holdings' = out.self.holdings
    /\ transactions' = out.self.transactions
    /\ clock' = IF Len(out.self.transactions) > Len(transactions) THEN clock + 1 ELSE clock
    /\ completed' = IF out.result = "ok" THEN completed + 1 ELSE completed
    /\ lastCall' = [op |-> op, amount |-> amount, symbol |-> symbol,
                    quantity |-> quantity, result |-> out.result, value |-> 0]
    /\ UNCHANGED <<price_table, returned, threads>>

CallDeposit == \E amount \in Amounts :
    Call("deposit", amount, None, 0, deposit(Account, amount))

CallWithdraw == \E amount \in Amounts :
    Call("withdraw", amount, None, 0, withdraw(Account, amount))

CallBuy == \E symbol \in Symbols, quantity \in Quantities :
    Call("buy", 0, symbol, quantity, buy(Account, symbol, quantity))

CallSell == \E symbol \in Symbols, quantity \in Quantities :
    Call("sell", 0, symbol, quantity, sell(Account, symbol, quantity))

\* variant: the account is opened with cash that no deposit accounts for
Init_opening_balance ==
    /\ cash_balance = 150
    /\ total_deposits = 0
    /\ holdings = <<>>
    /\ transactions = <<>>
    /\ clock = 1
    /\ completed = 0
    /\ lastCall = [op |-> "init", amount |-> 0, symbol |-> None,
                   quantity |-> 0, result |-> "ok", value |-> 0]
    /\ price_table = prices
    /\ returned = [has_holdings |-> FALSE, holdings |-> <<>>,
                   has_transactions |-> FALSE, transactions |-> <<>>]
    /\ threads = [frames |-> [t \in Threads |-> IdleFrame], overlapped |-> FALSE]

Init ==
    /\ cash_balance = 0
    /\ total_deposits = 0
    /\ holdings = <<>>
    /\ transactions = <<>>
    /\ clock = 1
    /\ completed = 0
    /\ lastCall = [op |-> "init", amount |-> 0, symbol |-> None,
                   quantity |-> 0, result |-> "ok", value |-> 0]
    /\ price_table = prices
    /\ returned = [has_holdings |-> FALSE, holdings |-> <<>>,
                   has_transactions |-> FALSE, transactions |-> <<>>]
    /\ threads = [frames |-> [t \in Threads |-> IdleFrame], overlapped |-> FALSE]

Next == CallDeposit \/ CallWithdraw \/ CallBuy \/ CallSell

Spec == Init /\ [][Next]_vars

\* amounts whose sums fall between two floats: the largest odd float, and an
\* amount that carries a balance past it once a share of AAPL is bought
FloatAmounts == {2 ^ MantissaBits - 1, prices["AAPL"] + 4}

CallDepositFloat == \E amount \in FloatAmounts :
    Call("deposit", amount, None, 0, deposit(Account, amount))

CallWithdrawFloat == \E amount \in FloatAmounts :
    Call("withdraw", amount, None, 0, withdraw(Account, amount))

NextFloat == CallDepositFloat \/ CallWithdrawFloat \/ CallBuy \/ CallSell

\* the mutating calls with amounts at which float sums are rounded
SpecFloat == Init /\ [][NextFloat]_vars

\* a reporting query: it assigns nothing and returns a number, noted in lastCall
Query(op, value) ==
    /\ lastCall' = [op |-> op, amount |-> 0, symbol |-> None,
                    quantity |-> 0, result |-> "ok", value |-> value]
    /\ UNCHANGED <<cash_balance, total_deposits, holdings, transactions,
                   clock, completed, price_table, returned, threads>>

CallGetPortfolioValue == Query("get_portfolio_value", get_portfolio_value(Account))

CallGetProfitLoss == Query("get_profit_loss", get_profit_loss(Account))

\* the price source is replaced, as the tests do by patching get_share_price
PatchPrices ==
    /\ price_table' \in PatchedTables \ {price_table}
    /\ UNCHANGED <<cash_balance, total_deposits, holdings, transactions,
                   clock, completed, lastCall, returned, threads>>

MutatingCall == Len(transactions) < MaxTxPatched /\ Next

NextPatched ==
    MutatingCall \/ CallGetPortfolioValue \/ CallGetProfitLoss \/ PatchPrices

\* what the caller did last, when it was not a call of a mutating method
Noted(op) == [op |-> op, amount |-> 0, symbol |-> None,
              quantity |-> 0, result |-> "ok", value |-> 0]

CallGetHoldings ==
    /\ returned' = [returned EXCEPT !.has_holdings = TRUE,
                                    !.holdings = get_holdings(Account)]
    /\ lastCall' = Noted("get_holdings")
    /\ UNCHANGED <<cash_balance, total_deposits, holdings, transactions,
                   clock, completed, price_table, threads>>

CallGetTransactions ==
    /\ returned' = [returned EXCEPT !.has_transactions = TRUE,
                                    !.transactions = get_transactions(Account)]
    /\ lastCall' = Noted("get_transactions")
    /\ UNCHANGED <<cash_balance, total_deposits, holdings, transactions,
                   clock, completed, price_table, threads>>

\* the caller changes the dict it was given: holdings_copy[symbol] = 99, or
\* del holdings_copy[symbol]
MutateReturnedHoldings ==
    /\ returned.has_holdings
    /\ \E symbol \in DOMAIN returned.holdings :
         \/ returned' = [returned EXCEPT !.holdings = holdings_set(@, symbol, 99)]
         \/ returned' = [returned EXCEPT !.holdings = holdings_del(@, symbol)]
    /\ lastCall' = Noted("mutate returned holdings")
    /\ UNCHANGED <<cash_balance, total_deposits, holdings, transactions,
                   clock, completed, price_table, threads>>

\* the caller changes the list it was given: it appends an object of its own
\* (reference 0), or removes the last element
MutateReturnedList ==
    /\ returned.has_transactions
    /\ \/ /\ Len(returned.transactions) <= Len(transactions)
          /\ returned' = [returned EXCEPT !.transactions = Append(@, 0)]
       \/ /\ returned.transactions # <<>>
          /\ returned' = [returned EXCEPT !.transactions =
                              SubSeq(@, 1, Len(@) - 1)]
    /\ lastCall' = Noted("mutate returned transactions")
    /\ UNCHANGED <<cash_balance, total_deposits, holdings, transactions,
                   clock, completed, price_table, threads>>

\* the caller assigns to a field of a record it reaches through the list it
\* was given: Transaction is a plain dataclass, so the assignment goes
\* through, and the object is the one the ledger holds
MutateReturnedRecord ==
    /\ returned.has_transactions
    /\ \E i \in 1..Len(returned.transactions) :
         LET ref == returned.transactions[i] IN
         /\ ref >= 1
         /\ \/ transactions' = [transactions EXCEPT ![ref].amount = 0]
            \/ transactions' = [transactions EXCEPT ![ref].type = "DEPOSIT"]
    /\ lastCall' = Noted("mutate returned transactions")
    /\ UNCHANGED <<cash_balance, total_deposits, holdings,
                   clock, completed, price_table, returned, threads>>

MutatingCallCopies == Len(transactions) < MaxTxCopies /\ Next

NextCopies ==
    \/ MutatingCallCopies
    \/ CallGetHoldings \/ CallGetTransactions
    \/ MutateReturnedHoldings \/ MutateReturnedList \/ MutateReturnedRecord

\* the account and a caller that keeps, and changes, what the queries return
SpecCopies == Init /\ [][NextCopies]_vars

\* ------------------------------------------------- two threads, one account
InCall(frames) == {t \in Threads : frames[t].pc # "idle"}

\* the frames after a step, and whether two calls have ever been in progress
\* at the same time
ThreadsAfter(frames) ==
    [frames |-> frames,
     overlapped |-> threads.overlapped \/ Cardinality(InCall(frames)) >= 2]

\* the account takes the state a step of a method left
AccountBecomes(self) ==
    /\ cash_balance' = self.cash_balance
    /\ total_deposits' = self.total_deposits
    /\ holdings' = self.holdings
    /\ transactions' = self.transactions

\* a handler thread calls withdraw or buy
ThreadEnter(t) ==
    /\ threads.frames[t].pc = "idle"
    /\ Len(transactions) + Cardinality(InCall(threads.frames)) < MaxTxThreads
    /\ \E frame \in
          {[IdleFrame EXCEPT !.pc = "validate", !.op = "withdraw", !.amount = a] :
              a \in Amounts}
          \cup
          {[IdleFrame EXCEPT !.pc = "validate", !.op = "buy", !.symbol = sy,
                            !.quantity = q] : sy \in Symbols, q \in Quantities} :
         threads' = ThreadsAfter([threads.frames EXCEPT ![t] = frame])
    /\ UNCHANGED <<cash_balance, total_deposits, holdings, transactions,
                   clock, lastCall, completed, price_table, returned>>

\* the thread runs the checks of its method; a raise ends the call
ThreadValidate(t) ==
    LET f == threads.frames[t] IN
    /\ f.pc = "validate"
    /\ IF f.op = "withdraw"
       THEN LET result == withdraw_validate(Account, f.amount) IN
            threads' = ThreadsAfter([threads.frames EXCEPT ![t] =
                IF result = "ok" THEN [f EXCEPT !.pc = "mutate"] ELSE IdleFrame])
       ELSE LET v == buy_validate(Account, f.symbol, f.quantity) IN
            threads' = ThreadsAfter([threads.frames EXCEPT ![t] =
                IF v.result = "ok"
                THEN [f EXCEPT !.pc = "mutate", !.price = v.price,
                               !.total_cost = v.total_cost]
                ELSE IdleFrame])
    /\ UNCHANGED <<cash_balance, total_deposits, holdings, transactions,
                   clock, lastCall, completed, price_table, returned>>

\* the thread runs the assignments of its method
ThreadMutate(t) ==
    LET f == threads.frames[t] IN
    /\ f.pc = "mutate"
    /\ AccountBecomes(IF f.op = "withdraw"
                      THEN withdraw_mutate(Account, f.amount)
                      ELSE buy_mutate(Account, f.symbol, f.quantity, f.total_cost))
    /\ threads' = ThreadsAfter([threads.frames EXCEPT ![t] = [f EXCEPT !.pc = "record"]])
    /\ UNCHANGED <<clock, lastCall, completed, price_table, returned>>

\* the thread records the transaction and returns
ThreadRecord(t) ==
    LET f == threads.frames[t] IN
    /\ f.pc = "record"
    /\ AccountBecomes(IF f.op = "withdraw"
                      THEN withdraw_record(Account, f.amount)
                      ELSE buy_record(Account, f.symbol, f.quantity, f.price, f.total_cost))
    /\ clock' = clock + 1
    /\ completed' = completed + 1
    /\ threads' = ThreadsAfter([threads.frames EXCEPT ![t] = IdleFrame])
    /\ UNCHANGED <<lastCall, price_table, returned>>

\* a deposit made while no other call is in progress
DepositAlone ==
    /\ InCall(threads.frames) = {}
    /\ Len(transactions) < MaxTxThreads
    /\ CallDeposit

NextThreads ==
    \/ DepositAlone
    \/ \E t \in Threads :
         ThreadEnter(t) \/ ThreadValidate(t) \/ ThreadMutate(t) \/ ThreadRecord(t)

\* one account shared by two handler threads, switched between statements
SpecThreads == Init /\ [][NextThreads]_vars

\* the account under a price source that changes between calls
SpecPatched == Init /\ [][NextPatched]_vars

\* ------------------------------------------------------------ properties
\* what a step shows of the call it made
CallOf(op) == lastCall'.op = op
ReturnedOk == lastCall'.result = "ok"
AccountUnchanged ==
    UNCHANGED <<cash_balance, total_deposits, holdings, transactions>>
\* exactly one record was appended, and nothing before it changed
OneAppended ==
    /\ Len(transactions') = Len(transactions) + 1
    /\ SubSeq(transactions', 1, Len(transactions)) = transactions
Appended == transactions'[Len(transactions')]
\* the holdings of every symbol but this one are as before
OtherHoldingsUnchanged(symbol) ==
    /\ DOMAIN holdings' \ {symbol} = DOMAIN holdings \ {symbol}
    /\ \A s \in DOMAIN holdings \ {symbol} : holdings'[s] = holdings[s]

\* C1: in every state reachable from a fresh account by deposit, withdraw,
\* buy and sell calls, successful or rejected, cash_balance >= 0.
C1_CashNeverNegative == cash_balance >= 0

\* a withdrawal and a purchase have both gone through and cash is at zero
C1_Witness ==
    /\ cash_balance = 0
    /\ \E i \in 1..Len(transactions) : transactions[i].type = "WITHDRAW"
    /\ \E i \in 1..Len(transactions) : transactions[i].type = "BUY"

\* C2: a call that fails leaves cash_balance, total_deposits, holdings and
\* transactions as they were, and the number of records always equals the
\* number of calls that completed successfully.
C2_RejectedCallsChangeNothing ==
    /\ [](Len(transactions) = completed)
    /\ [][~ReturnedOk => AccountUnchanged]_vars

\* a purchase was rejected in an account that holds cash, shares and records
C2_Witness ==
    /\ lastCall.op = "buy"
    /\ lastCall.result = "InsufficientFundsError"
    /\ cash_balance > 0
    /\ holdings # <<>>
    /\ completed >= 2

\* C3: every symbol in holdings has a quantity > 0, and a sell that brings a
\* holding to zero removes the symbol from holdings.
C3_HoldingsPositive ==
    /\ [](\A s \in DOMAIN holdings : holdings[s] > 0)
    /\ [][(CallOf("sell") /\ ReturnedOk
            /\ holdings_get(holdings, lastCall'.symbol, 0) = lastCall'.quantity)
          => lastCall'.symbol \notin DOMAIN holdings']_vars

\* all shares of a symbol were sold while another symbol stays held
C3_Witness ==
    /\ lastCall.op = "sell"
    /\ lastCall.result = "ok"
    /\ lastCall.symbol \notin DOMAIN holdings
    /\ holdings # <<>>

\* C4: total_deposits never decreases and changes only in a successful
\* deposit, by exactly the deposited amount.
C4_TotalDepositsOnlyByDeposit ==
    [][/\ total_deposits' >= total_deposits
       /\ (CallOf("deposit") /\ ReturnedOk)
            => total_deposits' = total_deposits + lastCall'.amount
       /\ ~(CallOf("deposit") /\ ReturnedOk)
            => total_deposits' = total_deposits]_vars

\* a withdrawal went through and the deposits total stands above the cash
C4_Witness ==
    /\ lastCall.op = "withdraw"
    /\ lastCall.result = "ok"
    /\ total_deposits > cash_balance
    /\ cash_balance > 0

\* C5: deposit(d) with d > 0 succeeds, adds exactly d to cash_balance and to
\* total_deposits, leaves holdings unchanged and appends one DEPOSIT record
\* with amount = +d.
C5_DepositEffect ==
    [][(CallOf("deposit") /\ lastCall'.amount > 0) =>
        /\ ReturnedOk
        /\ cash_balance' = cash_balance + lastCall'.amount
        /\ total_deposits' = total_deposits + lastCall'.amount
        /\ holdings' = holdings
        /\ OneAppended
        /\ Appended.type = "DEPOSIT"
        /\ Appended.amount = lastCall'.amount]_vars

\* a further deposit into an account that already holds shares
C5_Witness ==
    /\ lastCall.op = "deposit"
    /\ lastCall.result = "ok"
    /\ holdings # <<>>
    /\ total_deposits > lastCall.amount

\* C6: withdraw(amount) with amount > 0 succeeds iff amount <= cash_balance;
\* on success cash_balance falls by exactly amount, total_deposits and
\* holdings are unchanged and one WITHDRAW record with amount = -amount is
\* appended; otherwise it fails with InsufficientFundsError, cash unchanged.
C6_WithdrawEffect ==
    [][(CallOf("withdraw") /\ lastCall'.amount > 0) =>
        /\ ReturnedOk <=> (lastCall'.amount <= cash_balance)
        /\ ReturnedOk =>
            /\ cash_balance' = cash_balance - lastCall'.amount
            /\ total_deposits' = total_deposits
            /\ holdings' = holdings
            /\ OneAppended
            /\ Appended.type = "WITHDRAW"
            /\ Appended.amount = -lastCall'.amount
        /\ (lastCall'.amount > cash_balance) =>
            /\ lastCall'.result = "InsufficientFundsError"
            /\ cash_balance' = cash_balance]_vars

\* the whole balance was withdrawn from an account that holds shares
C6_Witness ==
    /\ lastCall.op = "withdraw"
    /\ lastCall.result = "ok"
    /\ cash_balance = 0
    /\ holdings # <<>>

\* C7: buy(symbol, q) of a supported symbol at price p with q > 0 succeeds
\* iff p*q <= cash_balance; on success cash falls by exactly p*q,
\* holdings[symbol] rises by exactly q, other holdings are unchanged and one
\* BUY record (amount -p*q, quantity q, share_price p) is appended; otherwise
\* it fails with InsufficientFundsError and changes neither cash nor holdings.
C7_BuyEffect ==
    [][(CallOf("buy") /\ lastCall'.quantity > 0 /\ lastCall'.symbol \in DOMAIN prices) =>
        LET symbol == lastCall'.symbol
            q == lastCall'.quantity
            p == prices[symbol]
        IN  /\ ReturnedOk <=> (p * q <= cash_balance)
            /\ ReturnedOk =>
                /\ cash_balance' = cash_balance - p * q
                /\ symbol \in DOMAIN holdings'
                /\ holdings'[symbol] = holdings_get(holdings, symbol, 0) + q
                /\ OtherHoldingsUnchanged(symbol)
                /\ OneAppended
                /\ Appended.type = "BUY"
                /\ Appended.amount = -(p * q)
                /\ Appended.symbol = symbol
                /\ Appended.quantity = q
                /\ Appended.share_price = p
            /\ ~ReturnedOk =>
                /\ lastCall'.result = "InsufficientFundsError"
                /\ cash_balance' = cash_balance
                /\ holdings' = holdings]_vars

\* shares were added to a holding that existed before the purchase
C7_Witness ==
    /\ lastCall.op = "buy"
    /\ lastCall.result = "ok"
    /\ holdings[lastCall.symbol] > lastCall.quantity

\* C8: sell(symbol, q) with 0 < q <= holdings[symbol] succeeds, adds exactly
\* p*q to cash, takes exactly q off holdings[symbol] (removing the entry at
\* zero), leaves other holdings and total_deposits unchanged and appends one
\* SELL record (amount +p*q, quantity q, share_price p).
C8_SellEffect ==
    [][(CallOf("sell") /\ lastCall'.quantity > 0
          /\ lastCall'.symbol \in DOMAIN prices
          /\ lastCall'.quantity <= holdings_get(holdings, lastCall'.symbol, 0)) =>
        LET symbol == lastCall'.symbol
            q == lastCall'.quantity
            p == prices[symbol]
        IN  /\ ReturnedOk
            /\ cash_balance' = cash_balance + p * q
            /\ holdings_get(holdings', symbol, 0) = holdings[symbol] - q
            /\ (holdings[symbol] = q) => symbol \notin DOMAIN holdings'
            /\ (holdings[symbol] > q) => symbol \in DOMAIN holdings'
            /\ OtherHoldingsUnchanged(symbol)
            /\ total_deposits' = total_deposits
            /\ OneAppended
            /\ Appended.type = "SELL"
            /\ Appended.amount = p * q
            /\ Appended.symbol = symbol
            /\ Appended.quantity = q
            /\ Appended.share_price = p]_vars

\* part of a holding was sold: the symbol stays held with fewer shares
C8_Witness ==
    /\ lastCall.op = "sell"
    /\ lastCall.result = "ok"
    /\ lastCall.symbol \in DOMAIN holdings
    /\ cash_balance = prices[lastCall.symbol] * lastCall.quantity

\* C9: sell(symbol, q) with q > 0 and q above the held quantity (zero when
\* the symbol is not held) fails with InsufficientSharesError and leaves
\* holdings, cash_balance and transactions unchanged, also when the price
\* oracle does not support the symbol.
C9_SellBeyondHeld ==
    [][(CallOf("sell") /\ lastCall'.quantity > 0
          /\ lastCall'.quantity > holdings_get(holdings, lastCall'.symbol, 0)) =>
        /\ lastCall'.result = "InsufficientSharesError"
        /\ UNCHANGED <<holdings, cash_balance, transactions>>]_vars

\* a sale of an unsupported symbol was rejected in an account holding shares
C9_Witness ==
    /\ lastCall.op = "sell"
    /\ lastCall.symbol \notin DOMAIN prices
    /\ lastCall.result = "InsufficientSharesError"
    /\ holdings # <<>>

\* C10: buy(symbol, q) with q > 0 and a symbol the price oracle does not
\* support fails with the oracle's unknown-symbol error (InvalidSymbolError
\* in the source) for every cash balance, zero included, and leaves
\* cash_balance, holdings and transactions unchanged.
C10_BuyUnknownSymbol ==
    [][(CallOf("buy") /\ lastCall'.quantity > 0
          /\ lastCall'.symbol \notin DOMAIN prices) =>
        /\ lastCall'.result = "InvalidSymbolError"
        /\ UNCHANGED <<cash_balance, holdings, transactions>>]_vars

\* an unsupported symbol was refused at a cash balance of zero
C10_Witness ==
    /\ lastCall.op = "buy"
    /\ lastCall.quantity > 0
    /\ lastCall.symbol \notin DOMAIN prices
    /\ lastCall.result = "InvalidSymbolError"
    /\ cash_balance = 0

\* C11: deposit or withdraw of an amount <= 0 (zero included) fails and
\* leaves cash_balance, total_deposits, holdings and transactions unchanged.
C11_NonPositiveAmountRejected ==
    [][((CallOf("deposit") \/ CallOf("withdraw")) /\ lastCall'.amount <= 0) =>
        /\ ~ReturnedOk
        /\ AccountUnchanged]_vars

\* a withdrawal of zero was refused by an account that has cash and shares
C11_Witness ==
    /\ lastCall.op = "withdraw"
    /\ lastCall.amount = 0
    /\ lastCall.result # "ok"
    /\ cash_balance > 0
    /\ holdings # <<>>

\* why a call fails, read off its arguments and the account it was made on
\* (a failed call leaves the account as it was, so the state after it serves)
FailureCause(call) ==
    IF call.op \in {"deposit", "withdraw"}
    THEN IF call.amount <= 0 THEN "non-positive amount" ELSE "exceeds cash"
    ELSE IF call.quantity <= 0 THEN "non-positive quantity"
    ELSE IF call.op = "sell"
         THEN IF call.quantity > holdings_get(holdings, call.symbol, 0)
              THEN "exceeds shares" ELSE "unknown symbol"
    ELSE IF call.symbol \notin DOMAIN prices THEN "unknown symbol"
    ELSE "exceeds cash"

\* the error kind the source raises for each cause
KindRaisedFor(cause) ==
    CASE cause = "non-positive amount" -> "ValueError"
      [] cause = "non-positive quantity" -> "ValueError"
      [] cause = "exceeds cash" -> "InsufficientFundsError"
      [] cause = "exceeds shares" -> "InsufficientSharesError"
      [] cause = "unknown symbol" -> "InvalidSymbolError"

\* C12 as stated: each validation failure has an error kind of its own, so
\* two failed calls with different causes never report the same kind.
C12_OwnKindPerCause ==
    [][(lastCall.result # "ok" /\ ~ReturnedOk
          /\ FailureCause(lastCall) # FailureCause(lastCall'))
        => lastCall.result # lastCall'.result]_vars

\* C12, amended: a non-positive amount and a non-positive quantity are both
\* reported as ValueError; exceeding cash is InsufficientFundsError,
\* exceeding held shares InsufficientSharesError and an unsupported symbol
\* InvalidSymbolError, three kinds distinct from each other and from
\* ValueError.
C12_KindPerCause ==
    [][~ReturnedOk => lastCall'.result = KindRaisedFor(FailureCause(lastCall'))]_vars

\* a sale of a non-positive quantity was refused with ValueError
C12_Witness ==
    /\ lastCall.op = "sell"
    /\ lastCall.quantity <= 0
    /\ lastCall.result = "ValueError"
    /\ holdings # <<>>

\* a step that is a call on the account (the other steps patch the price source)
IsCall == price_table' = price_table
\* what one symbol is worth under the price source in force
Worth(s) ==
    IF s \in DOMAIN holdings /\ s \in DOMAIN price_table
    THEN price_table[s] * holdings[s] ELSE 0
ExpectedPortfolioValue ==
    cash_balance + Worth("AAPL") + Worth("TSLA") + Worth("GOOGL") + Worth("INVALID")
ProfitLoss == get_profit_loss(Account)

\* C13: portfolio_value() returns cash_balance plus the sum over the holdings
\* of price * quantity, a held symbol whose lookup fails counting as zero,
\* and the query changes no account state.
C13_PortfolioValue ==
    /\ [](get_portfolio_value(Account) = ExpectedPortfolioValue)
    /\ [][(IsCall /\ CallOf("get_portfolio_value")) =>
            /\ ReturnedOk
            /\ lastCall'.value = ExpectedPortfolioValue
            /\ AccountUnchanged]_vars

\* the value was asked for while one held symbol has a price and another none
C13_Witness ==
    /\ lastCall.op = "get_portfolio_value"
    /\ \E s \in DOMAIN holdings : s \notin DOMAIN price_table
    /\ \E s \in DOMAIN holdings : s \in DOMAIN price_table /\ holdings[s] >= 1
    /\ cash_balance > 0
    /\ lastCall.value = ExpectedPortfolioValue

\* the price of held symbol s, and of no other held symbol, changes in the step
OnlyPriceOfChanges(s) ==
    /\ s \in DOMAIN holdings
    /\ s \in DOMAIN price_table /\ s \in DOMAIN price_table'
    /\ price_table'[s] # price_table[s]
    /\ \A o \in DOMAIN holdings \ {s} :
        /\ (o \in DOMAIN price_table) <=> (o \in DOMAIN price_table')
        /\ (o \in DOMAIN price_table) => price_table'[o] = price_table[o]

C19_FreshAccount ==
    lastCall.op = "init" =>
        /\ cash_balance = 0
        /\ total_deposits = 0
        /\ holdings = <<>>
        /\ transactions = <<>>
        /\ get_portfolio_value(Account) = 0
        /\ get_profit_loss(Account) = 0

\* the account has not been called yet and the price source is a patched one
C19_Witness ==
    /\ lastCall.op = "init"
    /\ price_table # prices
    /\ completed = 0

\* C17: transactions is append-only and ordered: across every operation the
\* previous sequence is a prefix of the new one, and a successful mutating
\* call appends exactly one record at the end (a rejected one none).
C17_AppendOnly ==
    [][/\ Len(transactions') >= Len(transactions)
       /\ SubSeq(transactions', 1, Len(transactions)) = transactions
       /\ ReturnedOk => OneAppended
       /\ ~ReturnedOk => transactions' = transactions]_vars

\* the ledger reads DEPOSIT, BUY, SELL in the order the calls were made
C17_Witness ==
    /\ Len(transactions) = 3
    /\ transactions[1].type = "DEPOSIT"
    /\ transactions[2].type = "BUY"
    /\ transactions[3].type = "SELL"
    /\ lastCall.op = "sell"

\* C18: the amount of every recorded transaction is strictly positive for
\* DEPOSIT and SELL and strictly negative for WITHDRAW and BUY.
C18_SignConvention ==
    \A i \in 1..Len(transactions) :
        /\ transactions[i].type \in {"DEPOSIT", "SELL"} => transactions[i].amount > 0
        /\ transactions[i].type \in {"WITHDRAW", "BUY"} => transactions[i].amount < 0

\* records of all four types are in the ledger
C18_Witness ==
    \A type \in TransactionType :
        \E i \in 1..Len(transactions) : transactions[i].type = type

\* what get_transactions would return now, read through its references
TransactionHistory ==
    [i \in 1..Len(transactions) |-> transactions[get_transactions(Account)[i]]]

\* C15: the values get_holdings and get_transactions return are independent
\* copies: no mutation of a returned value changes the ledger's holdings or
\* transactions, nor what a later call of either query returns.
C15_ReturnedCopiesIndependent ==
    [][(CallOf("mutate returned holdings") \/ CallOf("mutate returned transactions")) =>
        /\ UNCHANGED <<holdings, transactions>>
        /\ get_holdings(Account)' = get_holdings(Account)
        /\ TransactionHistory' = TransactionHistory]_vars

\* C16: a recorded Transaction is immutable: none of its fields changes,
\* neither through later ledger operations nor through a record reached via
\* the list get_transactions returned.
C16_RecordsImmutable ==
    [][\A i \in 1..Len(transactions) :
        /\ i <= Len(transactions')
        /\ transactions'[i] = transactions[i]]_vars

\* C20: the methods hold no lock, so validate, mutate and record of two
\* calls can interleave and cash_balance < 0 becomes reachable (the witness);
\* as long as no two calls were ever in progress together it is not.
C20_NegativeOnlyWhenInterleaved ==
    cash_balance < 0 => threads.overlapped

\* two calls that each passed the funds check have both subtracted
C20_Witness ==
    /\ cash_balance < 0
    /\ threads.overlapped
    /\ \A t \in Threads : threads.frames[t].pc \in {"record", "idle"}

RECURSIVE SumSeq(_)
\* the sum of a sequence of numbers
SumSeq(numbers) ==
    IF numbers = <<>> THEN 0 ELSE Head(numbers) + SumSeq(Tail(numbers))

\* per record of the ledger: its amount, its amount if it is a deposit, and
\* what it withdrew (a withdrawal is recorded with a negative amount)
RecordedAmounts == [i \in 1..Len(transactions) |-> transactions[i].amount]
RecordedDeposits ==
    [i \in 1..Len(transactions) |->
        IF transactions[i].type = "DEPOSIT" THEN transactions[i].amount ELSE 0]
RecordedWithdrawals ==
    [i \in 1..Len(transactions) |->
        IF transactions[i].type = "WITHDRAW" THEN -transactions[i].amount ELSE 0]

\* C21: cash_balance equals the sum of the amounts of all recorded
\* transactions, and total_deposits the sum of the amounts of the DEPOSIT
\* records.
C21_CashReconciles ==
    /\ cash_balance = SumSeq(RecordedAmounts)
    /\ total_deposits = SumSeq(RecordedDeposits)

\* the ledger holds a deposit, a withdrawal, a purchase of two shares and a sale
C21_Witness ==
    /\ Len(transactions) = 4
    /\ \A type \in TransactionType :
        \E i \in 1..Len(transactions) : transactions[i].type = type
    /\ \E i \in 1..Len(transactions) :
        transactions[i].type = "BUY" /\ transactions[i].quantity = 2
    /\ cash_balance # total_deposits

\* per record of the ledger: the shares of symbol s it bought, and sold
RecordedBought(s) ==
    [i \in 1..Len(transactions) |->
        IF transactions[i].type = "BUY" /\ transactions[i].symbol = s
        THEN transactions[i].quantity ELSE 0]
RecordedSold(s) ==
    [i \in 1..Len(transactions) |->
        IF transactions[i].type = "SELL" /\ transactions[i].symbol = s
        THEN transactions[i].quantity ELSE 0]

\* C22: for every symbol the held quantity (zero when the symbol is absent
\* from holdings) equals the quantities of its BUY records less those of its
\* SELL records.
C22_SharesReconcile ==
    \A s \in Symbols :
        holdings_get(holdings, s, 0) = SumSeq(RecordedBought(s)) - SumSeq(RecordedSold(s))

\* a symbol is still held after shares of it were bought and some sold
C22_Witness ==
    \E s \in DOMAIN holdings :
        /\ SumSeq(RecordedSold(s)) >= 1
        /\ SumSeq(RecordedBought(s)) > SumSeq(RecordedSold(s))

\* C23: under the static price table every held symbol is one the price
\* oracle supports, so its lookup does not raise (the branch of
\* get_portfolio_value that passes over an unpriceable holding is not taken),
\* and a sell that passes the quantity and share checks succeeds: it does not
\* fail at its price lookup.
C23_HeldSymbolsSupported ==
    /\ [](\A s \in DOMAIN holdings :
            s \in DOMAIN prices /\ get_share_price(s).raised = None)
    /\ [][(/\ CallOf("sell")
           /\ lastCall'.quantity > 0
           /\ holdings_get(holdings, lastCall'.symbol, 0) >= lastCall'.quantity)
          => lastCall'.result = "ok"]_vars

\* shares were sold at the looked-up price while a priced holding remains
C23_Witness ==
    /\ lastCall.op = "sell"
    /\ lastCall.result = "ok"
    /\ sum_holdings(holdings, DOMAIN holdings, 0) > 0
    /\ \E i \in 1..Len(transactions) : transactions[i].type = "SELL"

\* C24: under the static price table a successful buy or sell leaves
\* get_portfolio_value() unchanged; in every state get_portfolio_value()
\* equals total_deposits less the withdrawn amounts, and get_profit_loss()
\* is not positive.
C24_ValueConserved ==
    /\ [][((CallOf("buy") \/ CallOf("sell")) /\ ReturnedOk)
          => get_portfolio_value(Account)' = get_portfolio_value(Account)]_vars
    /\ [](get_portfolio_value(Account)
            = float_round(total_deposits - SumSeq(RecordedWithdrawals)))
    /\ [](get_profit_loss(Account) <= 0)

====
